---- MODULE Spec2Model ----
(***************************************************************************)
(* Model of the PDF export service: the ExportQueue, the export-pdf        *)
(* admission handler, the per-job pipeline closure, the job cleanup timer  *)
(* and the status / download endpoints of src/src/puppeteer-export.js,     *)
(* with the compression service of src/unnamed/part_004                    *)
(* (pdf-compression.js).                                                   *)
(*                                                                         *)
(* One action is one run-to-completion step of the Node.js event loop: a   *)
(* request handler, a timer callback, or the continuation of the pipeline  *)
(* closure after an awaited call settles (with the microtasks it triggers, *)
(* such as the resumption of processNext after execute() settles).         *)
(***************************************************************************)
EXTENDS Integers, Sequences, FiniteSets, TLC

(* ------------------------------ bounds --------------------------------- *)

\* number of job ids (uuids) handed out under Spec and FairSpec
MaxJobs == 2
\* number of job ids handed out under SpecLoad
MaxLoadJobs == 5
\* largest projectState.pages.length a request carries
MaxPages == 2
\* the clock stops advancing beyond this many milliseconds
MaxNow == 3600001

\* process.memoryUsage().rss samples, in bytes: the largest value that
\* rounds to 800 MB and the smallest that rounds to 801 MB
RssSamples == {839385087, 839385088}

\* amounts by which Date.now() advances between two event-loop steps (ms)
TickSteps == {3600001}

\* req.body variants that the handler refuses: absent body, body without
\* pages, empty pages
InvalidBodies ==
    {[kind |-> "missing", pages |-> 0, shouldCompress |-> "undefined"],
     [kind |-> "nopages", pages |-> 0, shouldCompress |-> "undefined"],
     [kind |-> "object", pages |-> 0, shouldCompress |-> "undefined"]}

\* req.body variants: the above, and pages of length 1..MaxPages with
\* shouldCompress absent or false
Bodies ==
    InvalidBodies
    \cup [kind : {"object"}, pages : 1..MaxPages,
          shouldCompress : {"undefined", "false"}]

\* the requests of the load scenario: single-page exports
LoadBodies ==
    InvalidBodies
    \cup [kind : {"object"}, pages : {1}, shouldCompress : {"false"}]

\* single-page exports, with shouldCompress absent or false
SinglePageBodies ==
    InvalidBodies
    \cup [kind : {"object"}, pages : {1},
          shouldCompress : {"undefined", "false"}]

(* --------------------------- program state ----------------------------- *)

VARIABLES
    exportJobs,   \* the in-memory job store: jobId -> job record
    queue,        \* ExportQueue.queue: job ids of the waiting task closures
    processing,   \* ExportQueue.processing
    immediates,   \* pending setImmediate(() => this.processNext()) callbacks
    task,         \* jobId -> state of that job's pipeline closure
    nextId,       \* the next fresh uuid
    now,          \* Date.now()
    disk,         \* jobId -> files of that job's output directory, each
                  \* a pair <<path, content>>
    removing,     \* job ids whose fs.remove(jobOutputDir) is in flight
    unhandled,    \* job ids whose cleanup callbacks threw (unhandled rejection)
    responded,    \* job ids whose 202 response has been sent
    apiKeys,      \* pdfCompressionService.publicKey / secretKey: set or not
    out           \* what the last step emitted: request, responses, calls

vars == <<exportJobs, queue, processing, immediates, task, nextId, now,
          disk, removing, unhandled, responded, apiKeys, out>>

Null == "null"

JobIds == 1..(IF MaxJobs > MaxLoadJobs THEN MaxJobs ELSE MaxLoadJobs)

\* the pipeline closure of a job: pc is the awaited call in flight
\* ("waiting" = closure sits in the queue, "done" = execute() has settled)
NewTask(body) ==
    [pc |-> "waiting", i |-> 0, paths |-> <<>>, merged |-> 0,
     totalPages |-> body.pages, shouldCompress |-> body.shouldCompress,
     runs |-> 0]

Executing(j) == task[j].pc \in {"ensureDir", "render", "merge", "compress"}

\* the record `out` of what a step emitted
Event(ev, job, code, kind, n) ==
    [ev |-> ev, job |-> job, code |-> code, kind |-> kind, n |-> n]

Out(op, log, snapshot) == [op |-> op, log |-> log, snapshot |-> snapshot]

Step(op, log) == Out(op, log, {})

NoTask ==
    [pc |-> "none", i |-> 0, paths |-> <<>>, merged |-> 0, totalPages |-> 0,
     shouldCompress |-> "undefined", runs |-> 0]

\* a closure whose execute() has settled holds nothing any more
DoneTask(tk) == [NoTask EXCEPT !.pc = "done", !.runs = tk.runs]

\* fs.existsSync(path) in an output directory holding the files dsk
Exists(dsk, path) == \E f \in dsk : f[1] = path

\* what the file at path holds
ReadFile(dsk, path) == (CHOOSE f \in dsk : f[1] = path)[2]

\* fs.writeFile / writeFileSync / copyFileSync creating or replacing path
WriteFileMutant(dsk, path, content) == dsk
WriteFile(dsk, path, content) ==
    {f \in dsk : f[1] # path} \cup {<<path, content>>}

\* what the environment can hold at start-up: each of ILOVEPDF_PUBLIC_KEY
\* and ILOVEPDF_SECRET_KEY is set or not
KeySettings == [publicKey : BOOLEAN, secretKey : BOOLEAN]

\* isAvailable(): !!(this.publicKey && this.secretKey)
IsAvailable(keys) == keys.publicKey /\ keys.secretKey

\* the state after the modules are loaded, the compression service having
\* been constructed with these keys
InitWith(keys) ==
    /\ apiKeys = keys
    /\ exportJobs = <<>>
    /\ queue = <<>>
    /\ processing = FALSE
    /\ immediates = 0
    /\ task = [j \in JobIds |-> NoTask]
    /\ nextId = 1
    /\ now = 0
    /\ disk = [j \in JobIds |-> {}]
    /\ removing = {}
    /\ unhandled = {}
    /\ responded = {}
    /\ out = Step("init", <<>>)

\* a deployment with both keys configured
Init == InitWith([publicKey |-> TRUE, secretKey |-> TRUE])

\* a deployment in which isAvailable() is false
InitNoKeys == \E keys \in KeySettings : ~IsAvailable(keys) /\ InitWith(keys)

(* ---------------------------- ExportQueue ------------------------------ *)

\* processNext's early return, negated: a task may be started
CanStartMutant(p, q) == Len(q) # 0
CanStart(p, q) == ~(p \/ Len(q) = 0)

\* const job = this.queue.shift()
DequeueMutant(q) == [job |-> q[Len(q)], rest |-> SubSeq(q, 1, Len(q) - 1)]
Dequeue(q) == [job |-> Head(q), rest |-> Tail(q)]

\* the synchronous prefix of the task closure, run by job.execute()
ExecuteStartMutant(rec, t) ==
    [rec EXCEPT !.status = "starting", !.lastUpdated = t]
ExecuteStart(rec, t) ==
    [rec EXCEPT !.status = "processing", !.lastUpdated = t]

\* processNext up to its `await job.execute()`; execute() runs the closure
\* up to its first await (fs.ensureDir)
ProcessNextMutant(q, p, jobs, tk, t) ==
    IF ~CanStart(p, q)
    THEN [queue |-> q, processing |-> p, exportJobs |-> jobs, task |-> tk,
          log |-> <<>>]
    ELSE LET d == Dequeue(q)
             j == d.job
         IN  [queue |-> d.rest,
              processing |-> TRUE,
              exportJobs |-> [jobs EXCEPT
                                ![j] = [ExecuteStart(@, t) EXCEPT
                                           !.queuePosition = 0]],
              task |-> [tk EXCEPT ![j].pc = "ensureDir", ![j].runs = @ + 1],
              log |-> <<Event("execute", j, 0, "", 0),
                        Event("call", j, 0, "ensureDir", 0)>>]
ProcessNext(q, p, jobs, tk, t) ==
    IF ~CanStart(p, q)
    THEN [queue |-> q, processing |-> p, exportJobs |-> jobs, task |-> tk,
          log |-> <<>>]
    ELSE LET d == Dequeue(q)
             j == d.job
         IN  [queue |-> d.rest,
              processing |-> TRUE,
              exportJobs |-> [jobs EXCEPT ![j] = ExecuteStart(@, t)],
              task |-> [tk EXCEPT ![j].pc = "ensureDir", ![j].runs = @ + 1],
              log |-> <<Event("execute", j, 0, "", 0),
                        Event("call", j, 0, "ensureDir", 0)>>]

\* add(jobFunction): push, then processNext()
QueueAddMutant(q, p, jobs, tk, t, j) ==
    LET pn == ProcessNext(Append(Append(q, j), j), p, jobs, tk, t)
    IN  [pn EXCEPT !.log = <<Event("add", j, 0, "", 0)>> \o @]
QueueAdd(q, p, jobs, tk, t, j) ==
    LET pn == ProcessNext(Append(q, j), p, jobs, tk, t)
    IN  [pn EXCEPT !.log = <<Event("add", j, 0, "", 0)>> \o @]

\* getQueueLength()
GetQueueLengthMutant(q) == 0
GetQueueLength(q) == Len(q)

\* processNext's finally block: the number of setImmediate callbacks after it
FinallyScheduleMutant(q, imm) == imm
FinallySchedule(q, imm) == IF Len(q) > 0 THEN imm + 1 ELSE imm

(* ------------------------- POST /export-pdf ---------------------------- *)

\* Math.round(memUsage.rss / 1024 / 1024)
RoundMB(bytes) == (2 * bytes + 1024 * 1024) \div (2 * 1024 * 1024)

MemTooHighMutant(mb) == mb > 900
MemTooHigh(mb) == mb > 800

QueueTooLongMutant(n) == n > 3
QueueTooLong(n) == n >= 3

\* !projectState || !projectState.pages || projectState.pages.length === 0
InvalidProjectStateMutant(body) ==
    body.kind = "missing" \/ body.kind = "nopages"
InvalidProjectState(body) ==
    body.kind = "missing" \/ body.kind = "nopages" \/ body.pages = 0

\* exportJobs[jobId] = { ... }
NewJobMutant(j, totalPages, queueLength, t) ==
    [id |-> j, status |-> "queued", currentPage |-> 0,
     totalPages |-> totalPages, finalPdfPath |-> Null,
     compressedPdfPath |-> Null, compressionInfo |-> {},
     jobOutputDir |-> <<"export", j>>, error |-> Null,
     lastUpdated |-> t, queuePosition |-> queueLength]
NewJob(j, totalPages, queueLength, t) ==
    [id |-> j, status |-> "queued", currentPage |-> 0,
     totalPages |-> totalPages, finalPdfPath |-> Null,
     compressedPdfPath |-> Null, compressionInfo |-> {},
     jobOutputDir |-> <<"export", j>>, error |-> Null,
     lastUpdated |-> t, queuePosition |-> queueLength + 1]

\* the order of the handler's effects after the record is created:
\* res.status(202).json(...) first, exportQueue.add(...) second
AcceptOrderMutant(respond, add) == add \o respond
AcceptOrder(respond, add) == respond \o add

SubmitReject(code, kind) ==
    /\ out' = Step("submit", <<Event("respond", 0, code, kind, 0)>>)
    /\ UNCHANGED <<apiKeys, exportJobs, queue, processing, immediates, task,
                   nextId, now, disk, removing, unhandled, responded>>

SubmitAcceptMutant(body, queueLength, maxIds) ==
    LET j == nextId
        rec == NewJob(j, body.pages, queueLength, now)
        jobs1 == [x \in DOMAIN exportJobs \cup {j} |->
                    IF x = j THEN rec ELSE exportJobs[x]]
        respond == <<Event("respond", rec.id, 202, "Accepted",
                           rec.queuePosition)>>
        added == QueueAdd(queue, FALSE, jobs1,
                          [task EXCEPT ![j] = NewTask(body)], now, j)
    IN  /\ nextId <= maxIds
        /\ exportJobs' = added.exportJobs
        /\ queue' = added.queue
        /\ processing' = added.processing
        /\ task' = added.task
        /\ nextId' = nextId + 1
        /\ responded' = responded \cup {j}
        /\ out' = Out("submit",
                      <<Event("create", j, 0, rec.status, rec.queuePosition)>>
                        \o AcceptOrder(respond, added.log),
                      {rec})
        /\ UNCHANGED <<apiKeys, immediates, now, disk, removing, unhandled>>
SubmitAccept(body, queueLength, maxIds) ==
    LET j == nextId
        rec == NewJob(j, body.pages, queueLength, now)
        jobs1 == [x \in DOMAIN exportJobs \cup {j} |->
                    IF x = j THEN rec ELSE exportJobs[x]]
        respond == <<Event("respond", rec.id, 202, "Accepted",
                           rec.queuePosition)>>
        added == QueueAdd(queue, processing, jobs1,
                          [task EXCEPT ![j] = NewTask(body)], now, j)
    IN  /\ nextId <= maxIds
        /\ exportJobs' = added.exportJobs
        /\ queue' = added.queue
        /\ processing' = added.processing
        /\ task' = added.task
        /\ nextId' = nextId + 1
        /\ responded' = responded \cup {j}
        /\ out' = Out("submit",
                      <<Event("create", j, 0, rec.status, rec.queuePosition)>>
                        \o AcceptOrder(respond, added.log),
                      {rec})
        /\ UNCHANGED <<apiKeys, immediates, now, disk, removing, unhandled>>

\* the handler, for a request with body `body` arriving while
\* process.memoryUsage().rss is `rss`
SubmitOf(rss, body, maxIds) ==
    LET queueLength == GetQueueLength(queue) IN
    IF MemTooHigh(RoundMB(rss))
    THEN SubmitReject(503, "ServerOverloaded")
    ELSE IF QueueTooLong(queueLength)
    THEN SubmitReject(503, "QueueFull")
    ELSE IF InvalidProjectState(body)
    THEN SubmitReject(400, "InvalidInput")
    ELSE SubmitAccept(body, queueLength, maxIds)

Submit ==
    \E rss \in RssSamples, body \in Bodies : SubmitOf(rss, body, MaxJobs)

\* the same handler under load: more requests, all of them small
SubmitLoad ==
    \E rss \in RssSamples, body \in LoadBodies :
        SubmitOf(rss, body, MaxLoadJobs)

\* the same handler receiving single-page requests only
SubmitSinglePage ==
    \E rss \in RssSamples, body \in SinglePageBodies :
        SubmitOf(rss, body, MaxJobs)

\* the callback scheduled by setImmediate(() => this.processNext())
ProcessNextImmediate ==
    /\ immediates > 0
    /\ LET pn == ProcessNext(queue, processing, exportJobs, task, now)
       IN  /\ immediates' = immediates - 1
           /\ queue' = pn.queue
           /\ processing' = pn.processing
           /\ exportJobs' = pn.exportJobs
           /\ task' = pn.task
           /\ out' = Step("processNext", pn.log)
    /\ UNCHANGED <<apiKeys, nextId, now, disk, removing, unhandled, responded>>

(* ----------------------- the pipeline closure -------------------------- *)

\* the closure of job j continues and awaits its next call
Continue(j, rec, tk, dsk, log) ==
    /\ exportJobs' = [exportJobs EXCEPT ![j] = rec]
    /\ task' = [task EXCEPT ![j] = tk]
    /\ disk' = [disk EXCEPT ![j] = dsk]
    /\ out' = Step("pipeline", log)
    /\ UNCHANGED <<apiKeys, queue, processing, immediates, nextId, now,
                   removing, unhandled, responded>>

\* the closure of job j returns: execute() settles, processNext resumes,
\* calls job.resolve(result) and runs its finally block
SettleMutant(j, rec, tk, dsk, log) ==
    /\ exportJobs' = [exportJobs EXCEPT ![j] = rec]
    /\ task' = [task EXCEPT ![j] = DoneTask(tk)]
    /\ disk' = [disk EXCEPT ![j] = dsk]
    /\ processing' = FALSE
    /\ out' = Step("pipeline", log \o <<Event("settled", j, 0, "resolved", 0)>>)
    /\ UNCHANGED <<apiKeys, queue, immediates, nextId, now, removing,
                   unhandled, responded>>
Settle(j, rec, tk, dsk, log) ==
    /\ exportJobs' = [exportJobs EXCEPT ![j] = rec]
    /\ task' = [task EXCEPT ![j] = DoneTask(tk)]
    /\ disk' = [disk EXCEPT ![j] = dsk]
    /\ processing' = FALSE
    /\ immediates' = FinallySchedule(queue, immediates)
    /\ out' = Step("pipeline", log \o <<Event("settled", j, 0, "resolved", 0)>>)
    /\ UNCHANGED <<apiKeys, queue, nextId, now, removing, unhandled,
                   responded>>

\* the closure's catch block
CatchBlockMutant(rec, msg, t) ==
    [rec EXCEPT !.error = msg, !.lastUpdated = t]
CatchBlock(rec, msg, t) ==
    [rec EXCEPT !.status = "error", !.error = msg, !.lastUpdated = t]

FailMutant(j, msg) ==
    Settle(j, CatchBlock(exportJobs[j], Null, now), task[j], disk[j],
           <<Event("catch", j, 0, msg, 0)>>)
Fail(j, msg) ==
    Settle(j, CatchBlock(exportJobs[j], msg, now), task[j], disk[j],
           <<Event("catch", j, 0, msg, 0)>>)

\* the head of `for (let i = 0; i < totalPages; i++)` with loop variable i:
\* either the next capturePageAsImage call or, after the loop, mergePdfs
LoopHeadMutant(j, i, paths, dsk, log) ==
    IF i <= task[j].totalPages
    THEN Continue(j,
                  [exportJobs[j] EXCEPT !.currentPage = i + 1,
                                        !.lastUpdated = now],
                  [task[j] EXCEPT !.pc = "render", !.i = i, !.paths = paths],
                  dsk,
                  log \o <<Event("call", j, 0, "capturePageAsImage", i)>>)
    ELSE Continue(j, exportJobs[j],
                  [task[j] EXCEPT !.pc = "merge", !.i = i, !.paths = paths],
                  dsk,
                  log \o <<Event("call", j, 0, "mergePdfs", paths)>>)
LoopHead(j, i, paths, dsk, log) ==
    IF i < task[j].totalPages
    THEN Continue(j,
                  [exportJobs[j] EXCEPT !.currentPage = i + 1,
                                        !.lastUpdated = now],
                  [task[j] EXCEPT !.pc = "render", !.i = i, !.paths = paths],
                  dsk,
                  log \o <<Event("call", j, 0, "capturePageAsImage", i)>>)
    ELSE Continue(j, exportJobs[j],
                  [task[j] EXCEPT !.pc = "merge", !.i = i, !.paths = paths],
                  dsk,
                  log \o <<Event("call", j, 0, "mergePdfs", paths)>>)

\* await fs.ensureDir(tempPdfDir) resolves
EnsureDirOkMutant ==
    \E j \in JobIds :
        /\ task[j].pc = "ensureDir"
        /\ LoopHead(j, task[j].totalPages, <<>>, disk[j], <<>>)
EnsureDirOk ==
    \E j \in JobIds :
        /\ task[j].pc = "ensureDir"
        /\ LoopHead(j, 0, <<>>, disk[j], <<>>)

\* await fs.ensureDir(tempPdfDir) rejects
EnsureDirFail ==
    \E j \in JobIds :
        /\ task[j].pc = "ensureDir"
        /\ Fail(j, "ensureDir failed")

\* await capturePageAsImage(...) resolves: the page path is pushed
RenderOk ==
    \E j \in JobIds :
        /\ task[j].pc = "render"
        /\ LoopHead(j, task[j].i + 1, Append(task[j].paths, task[j].i + 1),
                    disk[j], <<>>)

\* await capturePageAsImage(...) rejects (navigation error, timeout, ...)
RenderFailMutant ==
    \E j \in JobIds :
        /\ task[j].pc = "render"
        /\ LoopHead(j, task[j].i, task[j].paths, disk[j], <<>>)
RenderFail ==
    \E j \in JobIds :
        /\ task[j].pc = "render"
        /\ Fail(j, "render failed")

\* shouldCompress = projectState.shouldCompress !== undefined
\*                    ? projectState.shouldCompress : true
ShouldCompressMutant(v) == v = "true"
ShouldCompress(v) == IF v # "undefined" THEN v = "true" ELSE TRUE

CompressionInfo(success, used, failed, impossible, skipped, err) ==
    [success |-> success, fallback_used |-> used, fallback_failed |-> failed,
     fallback_impossible |-> impossible, skipped |-> skipped, error |-> err]

\* the else branch of `if (shouldCompress)`
SkippedInfo == CompressionInfo(TRUE, FALSE, FALSE, FALSE, TRUE, Null)

\* Mark job as complete
MarkCompleteMutant(rec, t) ==
    [rec EXCEPT !.status = IF rec.finalPdfPath = "merged"
                              /\ rec.compressionInfo # {SkippedInfo}
                           THEN "error" ELSE "complete",
                !.lastUpdated = t]
MarkComplete(rec, t) ==
    [rec EXCEPT !.status = "complete", !.lastUpdated = t]

\* await mergePdfs(...) resolves with k of the page files read and copied
\* (the others were skipped by the per-file catch); the merged file has
\* been written
MergeOkOf(j, k) ==
    /\ task[j].pc = "merge"
    /\ LET dsk == WriteFile(disk[j], "merged", "merged pdf")
       IN  IF ShouldCompress(task[j].shouldCompress)
           THEN Continue(j,
                    [exportJobs[j] EXCEPT !.status = "compressing",
                                          !.lastUpdated = now],
                    [task[j] EXCEPT !.pc = "compress", !.merged = k],
                    dsk,
                    <<Event("return", j, 0, "mergePdfs", k),
                      Event("call", j, 0, "compressPDF", 0)>>)
           ELSE Settle(j,
                    MarkComplete(
                        [exportJobs[j] EXCEPT
                            !.finalPdfPath = "merged",
                            !.compressionInfo = {SkippedInfo}], now),
                    [task[j] EXCEPT !.merged = k], dsk,
                    <<Event("return", j, 0, "mergePdfs", k)>>)

MergeOk ==
    \E j \in JobIds : \E k \in 0..Len(task[j].paths) : MergeOkOf(j, k)

\* await mergePdfs(...) rejects: PDFDocument.create, save or fs.writeFile threw
MergeFailMutant ==
    \E j \in JobIds :
        /\ task[j].pc = "merge"
        /\ Settle(j,
                  CatchBlock([exportJobs[j] EXCEPT !.finalPdfPath = "merged"],
                             "merge failed", now),
                  task[j], disk[j],
                  <<Event("catch", j, 0, "merge failed", 0)>>)
MergeFail ==
    \E j \in JobIds :
        /\ task[j].pc = "merge"
        /\ Fail(j, "merge failed")

(* ------------------ PDFCompressionService.compressPDF ------------------ *)

\* the catch block of compressPDF: fallback copy of the input to the output
CompressFallbackMutant(inputExists, copyOk) ==
    IF inputExists
    THEN [info |-> CompressionInfo(FALSE, TRUE, FALSE, FALSE, FALSE,
                                   "api error"),
          wrote |-> FALSE]
    ELSE [info |-> CompressionInfo(FALSE, FALSE, FALSE, TRUE, FALSE,
                                   "api error, input not found"),
          wrote |-> FALSE]
CompressFallback(inputExists, copyOk) ==
    IF inputExists
    THEN IF copyOk
         THEN [info |-> CompressionInfo(FALSE, TRUE, FALSE, FALSE, FALSE,
                                        "api error"),
               wrote |-> TRUE]
         ELSE [info |-> CompressionInfo(FALSE, FALSE, TRUE, FALSE, FALSE,
                                        "api error, copy failed"),
               wrote |-> FALSE]
    ELSE [info |-> CompressionInfo(FALSE, FALSE, FALSE, TRUE, FALSE,
                                   "api error, input not found"),
          wrote |-> FALSE]

\* compressPDF(inputFilePath, outputFilePath, options).  api is how far the
\* iLovePDF calls get: "startFails" (import, newTask or task.start throws,
\* before the input check), "processFails" (addFile, process, download or
\* writeFileSync throws, after it) or "ok".  The result is the returned
\* object with its flags as puppeteer-export.js reads them (!!flag), and
\* whether the output file was written.
CompressPDFMutant(inputExists, api, copyOk) ==
    CompressFallback(inputExists, copyOk)
CompressPDF(inputExists, api, copyOk) ==
    IF api = "startFails"
    THEN CompressFallback(inputExists, copyOk)
    ELSE IF ~inputExists
    THEN [info |-> CompressionInfo(FALSE, FALSE, FALSE, TRUE, FALSE,
                                   "input not found"),
          wrote |-> FALSE]
    ELSE IF api = "processFails"
    THEN CompressFallback(inputExists, copyOk)
    ELSE [info |-> CompressionInfo(TRUE, FALSE, FALSE, FALSE, FALSE, Null),
          wrote |-> TRUE]

\* the if / else if / else after compressPDF returns
FinalPathMutant(info) ==
    IF info.success THEN "compressed"
    ELSE IF info.fallback_used THEN "compressed"
    ELSE Null
FinalPath(info) ==
    IF info.success THEN "compressed"
    ELSE IF info.fallback_used THEN "compressed"
    ELSE "merged"

FinalInfo(info) ==
    IF info.success \/ info.fallback_used
    THEN info
    ELSE [info EXCEPT !.error = "compression failed completely"]

\* how far the iLovePDF calls of compressPDF can get with these keys: no
\* task can be started without a public key
ApiOutcomes(keys) ==
    IF keys.publicKey THEN {"ok", "startFails", "processFails"}
    ELSE {"startFails"}

\* await pdfCompressionService.compressPDF(...) resolves.  gone: the merged
\* file was removed from the output directory, by something other than
\* this process, before compressPDF looks for it with fs.existsSync
CompressSettledOfMutant(j, gone, api, copyOk) ==
    /\ task[j].pc = "compress"
    /\ api \in ApiOutcomes(apiKeys)
    /\ LET dsk == IF gone THEN {f \in disk[j] : f[1] # "merged"}
                  ELSE disk[j]
           r == CompressPDF(Exists(dsk, "merged"), api, copyOk)
           data == IF r.info.success THEN "compressed pdf"
                   ELSE ReadFile(dsk, "merged")
       IN  IF r.info.fallback_impossible
           THEN Fail(j, r.info.error)
           ELSE Settle(j,
                    MarkComplete(
                        [exportJobs[j] EXCEPT
                            !.compressionInfo = {FinalInfo(r.info)},
                            !.finalPdfPath = FinalPath(r.info)], now),
                    task[j],
                    IF r.wrote THEN WriteFile(dsk, "compressed", data)
                    ELSE dsk,
                    <<>>)
CompressSettledOf(j, gone, api, copyOk) ==
    /\ task[j].pc = "compress"
    /\ api \in ApiOutcomes(apiKeys)
    /\ LET dsk == IF gone THEN {f \in disk[j] : f[1] # "merged"}
                  ELSE disk[j]
           r == CompressPDF(Exists(dsk, "merged"), api, copyOk)
           data == IF r.info.success THEN "compressed pdf"
                   ELSE ReadFile(dsk, "merged")
       IN  Settle(j,
               MarkComplete(
                   [exportJobs[j] EXCEPT
                       !.compressionInfo = {FinalInfo(r.info)},
                       !.finalPdfPath = FinalPath(r.info)], now),
               task[j],
               IF r.wrote THEN WriteFile(dsk, "compressed", data) ELSE dsk,
               <<>>)

CompressSettled ==
    \E j \in JobIds, gone \in BOOLEAN :
      \E api \in {"ok", "startFails", "processFails"}, copyOk \in BOOLEAN :
        CompressSettledOf(j, gone, api, copyOk)

(* --------------------------- job cleanup ------------------------------- *)

TerminalMutant(status) == TRUE
Terminal(status) == status = "complete" \/ status = "error"

\* the two nested ifs of the cleanup loop
ExpiredMutant(rec, t) == Terminal(rec.status)
Expired(rec, t) ==
    Terminal(rec.status) /\ t - rec.lastUpdated > 3600000

\* if (jobOutputDir && status !== 'error') fs.remove(jobOutputDir)
RemovesDir(rec) == rec.status # "error"

\* the setInterval callback (it may run at any time relative to the jobs)
JanitorSweepMutant ==
    LET old == {j \in DOMAIN exportJobs : Expired(exportJobs[j], now)}
        keep == DOMAIN exportJobs \ old
    IN  /\ exportJobs' = [j \in keep |-> exportJobs[j]]
        /\ removing' = removing
                         \cup {j \in DOMAIN exportJobs :
                                 /\ Terminal(exportJobs[j].status)
                                 /\ RemovesDir(exportJobs[j])}
        /\ out' = Step("sweep", <<>>)
        /\ UNCHANGED <<apiKeys, queue, processing, immediates, task, nextId,
                       now, disk, unhandled, responded>>
JanitorSweep ==
    LET old == {j \in DOMAIN exportJobs : Expired(exportJobs[j], now)}
        keep == DOMAIN exportJobs \ old
    IN  /\ exportJobs' = [j \in keep |-> exportJobs[j]]
        /\ removing' = removing \cup {j \in old : RemovesDir(exportJobs[j])}
        /\ out' = Step("sweep", <<>>)
        /\ UNCHANGED <<apiKeys, queue, processing, immediates, task, nextId,
                       now, disk, unhandled, responded>>

\* the .then / .catch callbacks of fs.remove read exportJobs[jobId].jobOutputDir
CallbackThrows(jobs, j) == j \notin DOMAIN jobs

\* fs.remove(jobOutputDir) settles and its callback runs
RemoveSettled ==
    \E j \in removing, ok \in BOOLEAN :
        /\ removing' = removing \ {j}
        /\ disk' = IF ok THEN [disk EXCEPT ![j] = {}] ELSE disk
        /\ unhandled' = IF CallbackThrows(exportJobs, j)
                        THEN unhandled \cup {j} ELSE unhandled
        /\ out' = Step("removed", <<>>)
        /\ UNCHANGED <<apiKeys, exportJobs, queue, processing, immediates,
                       task, nextId, now, responded>>

\* time passes between two event-loop steps
Tick ==
    \E d \in TickSteps :
        /\ now + d <= MaxNow
        /\ now' = now + d
        /\ out' = Step("tick", <<>>)
        /\ UNCHANGED <<apiKeys, exportJobs, queue, processing, immediates,
                       task, nextId, disk, removing, unhandled, responded>>

(* ------------------- status and download endpoints --------------------- *)

ReadOnly(op, log, snapshot) ==
    /\ out' = Out(op, log, snapshot)
    /\ UNCHANGED <<apiKeys, exportJobs, queue, processing, immediates, task,
                   nextId, now, disk, removing, unhandled, responded>>

\* the ids a client asks about: every id handed out so far (its job may
\* have been swept since) and one that was never handed out
PolledIds == {id \in JobIds : id <= nextId}

\* GET /export-status/:jobId
ExportStatusMutant ==
    \E id \in PolledIds :
        ReadOnly("status", <<Event("respond", id, 404, "NotFound", 0)>>, {})
ExportStatus ==
    \E id \in PolledIds :
        IF id \notin DOMAIN exportJobs
        THEN ReadOnly("status", <<Event("respond", id, 404, "NotFound", 0)>>,
                      {})
        ELSE ReadOnly("status", <<Event("respond", id, 200, "Job", 0)>>,
                      {exportJobs[id]})

\* GET /download/:jobId
DownloadMutant ==
    \E id \in PolledIds :
        IF id \notin DOMAIN exportJobs
        THEN ReadOnly("download",
                      <<Event("respond", id, 404, "NotFound", 0)>>, {})
        ELSE ReadOnly("download",
                      <<Event("respond", id, 200,
                              exportJobs[id].finalPdfPath,
                              IF Exists(disk[id],
                                        exportJobs[id].finalPdfPath)
                              THEN 1 ELSE 0)>>, {})
Download ==
    \E id \in PolledIds :
        IF id \notin DOMAIN exportJobs
        THEN ReadOnly("download",
                      <<Event("respond", id, 404, "NotFound", 0)>>, {})
        ELSE IF exportJobs[id].status # "complete"
                \/ exportJobs[id].finalPdfPath = Null
        THEN ReadOnly("download",
                      <<Event("respond", id, 400, "NotReady", 0)>>, {})
        ELSE ReadOnly("download",
                      <<Event("respond", id, 200,
                              exportJobs[id].finalPdfPath,
                              IF Exists(disk[id],
                                        exportJobs[id].finalPdfPath)
                              THEN 1 ELSE 0)>>, {})

(* ---------------------------- specification ---------------------------- *)

Next ==
    \/ Submit
    \/ ProcessNextImmediate
    \/ EnsureDirOk
    \/ EnsureDirFail
    \/ RenderOk
    \/ RenderFail
    \/ MergeOk
    \/ MergeFail
    \/ CompressSettled
    \/ JanitorSweep
    \/ RemoveSettled
    \/ Tick
    \/ ExportStatus
    \/ Download

Spec == Init /\ [][Next]_vars

\* the operations that write the job store, the queue or the disk: all but
\* the two read-only endpoints
NextStore ==
    \/ Submit
    \/ ProcessNextImmediate
    \/ EnsureDirOk
    \/ EnsureDirFail
    \/ RenderOk
    \/ RenderFail
    \/ MergeOk
    \/ MergeFail
    \/ CompressSettled
    \/ JanitorSweep
    \/ RemoveSettled
    \/ Tick

SpecStore == Init /\ [][NextStore]_vars

\* every operation of the service, the two read-only endpoints included,
\* on single-page requests
NextService ==
    \/ SubmitSinglePage
    \/ ProcessNextImmediate
    \/ EnsureDirOk
    \/ EnsureDirFail
    \/ RenderOk
    \/ RenderFail
    \/ MergeOk
    \/ MergeFail
    \/ CompressSettled
    \/ JanitorSweep
    \/ RemoveSettled
    \/ Tick
    \/ ExportStatus
    \/ Download

SpecService == Init /\ [][NextService]_vars

\* the service under load: single-page requests, up to MaxLoadJobs of them,
\* within one retention window
NextLoad ==
    \/ SubmitLoad
    \/ ProcessNextImmediate
    \/ EnsureDirOk
    \/ RenderOk
    \/ RenderFail
    \/ MergeOk

SpecLoad == Init /\ [][NextLoad]_vars

\* the queue and the pipeline with the scheduling the event loop gives:
\* every awaited call settles and every setImmediate callback runs
NextQueue ==
    \/ Submit
    \/ ProcessNextImmediate
    \/ EnsureDirOk
    \/ EnsureDirFail
    \/ RenderOk
    \/ RenderFail
    \/ MergeOk
    \/ MergeFail
    \/ CompressSettled

\* the same queue and pipeline in a deployment without usable credentials
SpecNoKeys == InitNoKeys /\ [][NextQueue]_vars

FairSpec ==
    /\ Init
    /\ [][NextQueue]_vars
    /\ WF_vars(ProcessNextImmediate)
    /\ WF_vars(EnsureDirOk \/ EnsureDirFail)
    /\ WF_vars(RenderOk \/ RenderFail)
    /\ WF_vars(MergeOk \/ MergeFail)
    /\ WF_vars(CompressSettled)

(* ------------------------------ helpers -------------------------------- *)

Stored == DOMAIN exportJobs

Log == out.log

\* the step that led here answered 202 Accepted
AcceptedStep(o) ==
    /\ o.op = "submit"
    /\ \E i \in DOMAIN o.log : o.log[i].ev = "respond" /\ o.log[i].code = 202

\* the step that led here answered with this rejection
RejectedStep(o, code, kind) ==
    /\ o.op = "submit"
    /\ o.log = <<Event("respond", 0, code, kind, 0)>>

NothingAdmitted ==
    UNCHANGED <<exportJobs, queue, processing, immediates, task, nextId,
                disk, responded>>

(* ------------------------------- claims -------------------------------- *)

\* C1: at most one task closure is executing at any time: two closures are
\* never both between their start and their settlement, and a closure
\* executes only while the queue's processing flag is set.
C1_OneAtATime ==
    /\ \A a, b \in JobIds : (Executing(a) /\ Executing(b)) => a = b
    /\ \A a \in JobIds : Executing(a) => processing

\* a second task is executing after the first one has settled, with a third
\* one waiting
C1_Witness ==
    \E a, b \in JobIds :
        /\ a # b
        /\ task[a].pc = "done"
        /\ Executing(b)
        /\ Len(queue) > 0

\* C2: jobs start in acceptance order (ids are handed out in acceptance
\* order): a job that has left `queued` is never younger than a job that is
\* still `queued`.
C2_FifoStart ==
    \A a, b \in Stored :
        (a < b /\ exportJobs[b].status # "queued")
            => exportJobs[a].status # "queued"

\* a submission arrived between a completion and the scheduled processNext:
\* its add() started the oldest waiting job, not the new one
C2_Witness ==
    /\ immediates > 0
    /\ out.op = "submit"
    /\ \E i, k \in DOMAIN Log :
        /\ Log[i].ev = "create"
        /\ Log[k].ev = "execute"
        /\ Log[k].job < Log[i].job
    /\ Len(queue) >= 2

\* C3: a failing task does not stall the queue.  The step in which a job
\* ends in status=error clears the processing flag and leaves every other
\* job's record as it was, and every job waiting while some job has failed
\* is started later on.
C3_FailureIsolated ==
    /\ [][\A j \in Stored :
            (j \in DOMAIN exportJobs'
             /\ exportJobs[j].status # "error"
             /\ exportJobs'[j].status = "error")
            => /\ ~processing'
               /\ \A k \in Stored \ {j} :
                    k \in DOMAIN exportJobs' /\ exportJobs'[k] = exportJobs[k]]_vars
    /\ \A j \in 1..MaxJobs :
         ((j \in Stored /\ exportJobs[j].status = "queued"
           /\ \E k \in Stored : exportJobs[k].status = "error")
          ~> (j \in Stored /\ exportJobs[j].status # "queued"))

\* a job that was waiting when another one failed has been started by the
\* setImmediate callback
C3_Witness ==
    /\ out.op = "processNext"
    /\ \E k, j \in Stored :
        /\ exportJobs[k].status = "error"
        /\ k < j
        /\ Executing(j)

AllowedChange ==
    {<<"queued", "processing">>, <<"processing", "compressing">>,
     <<"processing", "complete">>, <<"compressing", "complete">>,
     <<"processing", "error">>, <<"compressing", "error">>}

\* C4: a stored job's status changes only along the six allowed edges, a
\* terminal status never changes, a record is created as queued (and may be
\* started in the same step), and a record disappears only when terminal
\* and only in a cleanup sweep.
C4_StatusMachine ==
    [][/\ \A j \in Stored :
            IF j \in DOMAIN exportJobs'
            THEN \/ exportJobs'[j].status = exportJobs[j].status
                 \/ <<exportJobs[j].status, exportJobs'[j].status>>
                        \in AllowedChange
            ELSE /\ exportJobs[j].status \in {"complete", "error"}
                 /\ out'.op = "sweep"
       /\ \A j \in DOMAIN exportJobs' \ Stored :
            /\ \A r \in out'.snapshot : r.status = "queued"
            /\ exportJobs'[j].status \in {"queued", "processing"}]_vars

\* one job went through compressing to complete and was swept, another one
\* is in error
C4_Witness ==
    /\ \E j \in 1..MaxJobs : j < nextId /\ j \notin Stored
    /\ \E k \in Stored : exportJobs[k].status = "error"
    /\ removing # {}

\* C5: every accepted job eventually reaches complete or error, given that
\* every awaited call settles and every scheduled callback runs.
C5_EventuallyTerminal ==
    \A j \in 1..MaxJobs :
        (j \in Stored)
            ~> (j \in Stored /\ exportJobs[j].status \in {"complete", "error"})

\* the last job id has reached a terminal status after the first one did
C5_Witness ==
    /\ MaxJobs \in Stored
    /\ \A j \in Stored : exportJobs[j].status \in {"complete", "error"}
    /\ \E j \in Stored : exportJobs[j].status = "complete"

\* C6: a submission made while the RSS in MB exceeds 800 is answered
\* 503 ServerOverloaded whatever the queue depth and the request body, and
\* it creates no job record and enqueues nothing.
C6_MemoryReject ==
    [][\A rss \in RssSamples, body \in LoadBodies :
        (SubmitOf(rss, body, MaxLoadJobs) /\ RoundMB(rss) > 800)
            => /\ RejectedStep(out', 503, "ServerOverloaded")
               /\ NothingAdmitted]_vars

\* refused for memory although the queue was full as well
C6_Witness ==
    /\ RejectedStep(out, 503, "ServerOverloaded")
    /\ Len(queue) = 3

\* C7 as stated: a submission made while the queue depth is >= 3 is
\* answered 503 QueueFull whatever the memory usage, and it creates no job
\* record and enqueues nothing.
C7_AsStated ==
    [][\A rss \in RssSamples, body \in LoadBodies :
        (SubmitOf(rss, body, MaxLoadJobs) /\ Len(queue) >= 3)
            => /\ RejectedStep(out', 503, "QueueFull")
               /\ NothingAdmitted]_vars

\* C7 as amended: a submission made while the queue depth is >= 3 is
\* refused with HTTP 503 whatever the memory usage, as QueueFull when the
\* RSS in MB is at most 800 and as ServerOverloaded when it is above (the
\* memory check comes first); it creates no job record and enqueues nothing.
C7_QueueReject ==
    [][\A rss \in RssSamples, body \in LoadBodies :
        (SubmitOf(rss, body, MaxLoadJobs) /\ Len(queue) >= 3)
            => /\ RejectedStep(out', 503,
                               IF RoundMB(rss) > 800
                               THEN "ServerOverloaded" ELSE "QueueFull")
               /\ NothingAdmitted]_vars

\* refused as QueueFull with three tasks waiting behind the executing one
C7_Witness ==
    /\ RejectedStep(out, 503, "QueueFull")
    /\ Len(queue) = 3
    /\ processing

\* a body that is missing, has no page list, or has zero pages
C8_BadBody(body) ==
    body.kind = "missing" \/ body.kind = "nopages" \/ body.pages = 0

\* C8 as stated: a submission whose render specification is missing, has no
\* page list or has zero pages is answered 400 InvalidInput, and every
\* refused submission leaves the job store and the queue unchanged.
C8_AsStated ==
    [][\A rss \in RssSamples, body \in LoadBodies :
        SubmitOf(rss, body, MaxLoadJobs)
            => /\ C8_BadBody(body) => RejectedStep(out', 400, "InvalidInput")
               /\ ~AcceptedStep(out') => NothingAdmitted]_vars

\* C8 as amended: such a submission is answered 400 InvalidInput when it
\* passes the memory check and the queue-depth check (otherwise it is
\* answered 503 by the check that fails first), and every refused submission
\* leaves the job store and the queue unchanged.
C8_InvalidReject ==
    [][\A rss \in RssSamples, body \in LoadBodies :
        SubmitOf(rss, body, MaxLoadJobs)
            => /\ C8_BadBody(body)
                    => IF RoundMB(rss) > 800 \/ Len(queue) >= 3
                       THEN \E kind \in {"ServerOverloaded", "QueueFull"} :
                                RejectedStep(out', 503, kind)
                       ELSE RejectedStep(out', 400, "InvalidInput")
               /\ ~AcceptedStep(out') => NothingAdmitted]_vars

\* refused as InvalidInput while a job is executing and another one waits
C8_Witness ==
    /\ RejectedStep(out, 400, "InvalidInput")
    /\ processing
    /\ Len(queue) > 0

\* C9: an accepted submission adds exactly one record, under a fresh id,
\* created with status=queued, currentPage=0, finalPdfPath=null, error=null
\* and queuePosition = observed queue depth + 1; the response carries that
\* id and queuePosition; the stored record is the created one, started or
\* not, and the other records are untouched.
C9_AcceptCreatesJob ==
    [][AcceptedStep(out')
        => \E j \in DOMAIN exportJobs' \ Stored :
            /\ DOMAIN exportJobs' = Stored \cup {j}
            /\ \E rec \in out'.snapshot :
                /\ out'.snapshot = {rec}
                /\ rec.id = j
                /\ rec.status = "queued"
                /\ rec.currentPage = 0
                /\ rec.finalPdfPath = Null
                /\ rec.error = Null
                /\ rec.queuePosition = Len(queue) + 1
                /\ exportJobs'[j] \in {rec, ExecuteStart(rec, now)}
                /\ \E i \in DOMAIN out'.log :
                    /\ out'.log[i].ev = "respond"
                    /\ out'.log[i].code = 202
                    /\ out'.log[i].job = j
                    /\ out'.log[i].n = rec.queuePosition
            /\ \A k \in Stored :
                \/ exportJobs'[k] = exportJobs[k]
                \/ exportJobs'[k] = ExecuteStart(exportJobs[k], now)]_vars

\* a job accepted third in line
C9_Witness ==
    /\ AcceptedStep(out)
    /\ \E rec \in out.snapshot :
        /\ rec.queuePosition = 3
        /\ rec.id \in Stored
        /\ exportJobs[rec.id] = rec

\* the job whose record the step that led here created
CreatedHere(j) ==
    \E k \in DOMAIN Log : Log[k].ev = "create" /\ Log[k].job = j

\* the 202 response for the job of event i precedes event i in the same step
RespondedBefore(i) ==
    \E k \in 1..(i - 1) :
        Log[k].ev = "respond" /\ Log[k].code = 202 /\ Log[k].job = Log[i].job

\* C10: the 202 response of a job is emitted before its task is enqueued and
\* before any call its pipeline makes: in the accepting step the response
\* comes first, and a job started or continued by a later step was answered
\* in an earlier one.
C10_RespondFirst ==
    \A i \in DOMAIN Log :
        Log[i].ev \in {"add", "execute", "call"}
            => IF CreatedHere(Log[i].job)
               THEN RespondedBefore(i)
               ELSE Log[i].job \in responded

\* accepted with the worker idle: the same step answered, enqueued the task
\* and started its pipeline
C10_Witness ==
    /\ AcceptedStep(out)
    /\ \E i \in DOMAIN Log : Log[i].ev = "call" /\ CreatedHere(Log[i].job)

\* the compressionInfo of a stored job, when it has one
InfoOf(j) == CHOOSE info \in exportJobs[j].compressionInfo : TRUE

\* C11: in every reachable state a job with status=complete has a non-null
\* finalPdfPath, whether compression succeeded, fell back to a copy, failed
\* with the copy failing too, found no input, or was skipped.
C11_CompleteHasPath ==
    \A j \in Stored :
        exportJobs[j].status = "complete" => exportJobs[j].finalPdfPath # Null

\* two complete jobs: one whose compression found no input to fall back to
\* (the branch that keeps the merged path), one whose compression was skipped
C11_Witness ==
    \E j, k \in Stored :
        /\ exportJobs[j].status = "complete"
        /\ exportJobs[j].compressionInfo # {}
        /\ InfoOf(j).fallback_impossible
        /\ exportJobs[j].finalPdfPath = "merged"
        /\ exportJobs[k].status = "complete"
        /\ exportJobs[k].compressionInfo # {}
        /\ InfoOf(k).skipped

\* C12: at the moment a job becomes complete, the file its finalPdfPath
\* names exists in the job's output directory, whichever way the job got
\* there (compression succeeded, fallback copy used, fallback copy failed,
\* input missing at compression time, compression skipped, pages skipped
\* by the merge).
C12_FileExistsAtCompletion ==
    [][\A j \in Stored :
        (/\ j \in DOMAIN exportJobs'
         /\ exportJobs[j].status # "complete"
         /\ exportJobs'[j].status = "complete")
        => Exists(disk'[j], exportJobs'[j].finalPdfPath)]_vars

\* C13: in every reachable state a job with status=error has a non-null
\* error, and a job with any other status has error=null.
C13_ErrorIffReason ==
    \A j \in Stored :
        /\ exportJobs[j].status = "error" => exportJobs[j].error # Null
        /\ exportJobs[j].status # "error" => exportJobs[j].error = Null

\* a failed job next to a complete one
C13_Witness ==
    \E j, k \in Stored :
        /\ exportJobs[j].status = "error"
        /\ exportJobs[j].error = "render failed"
        /\ exportJobs[k].status = "complete"
        /\ exportJobs[k].error = Null

\* C14: an accepted job's totalPages is the number of pages of the submitted
\* project state and never changes; its currentPage never decreases and
\* never exceeds totalPages.
C14_PageCounters ==
    [][/\ AcceptedStep(out') => \A rss \in RssSamples, body \in Bodies :
            SubmitOf(rss, body, MaxJobs)
                => exportJobs'[nextId].totalPages = body.pages
       /\ \A j \in DOMAIN exportJobs' :
            /\ exportJobs'[j].currentPage <= exportJobs'[j].totalPages
            /\ j \in Stored =>
                /\ exportJobs'[j].totalPages = exportJobs[j].totalPages
                /\ exportJobs'[j].currentPage >= exportJobs[j].currentPage]_vars

\* the loop has just moved a job of MaxPages pages on to its last page
C14_Witness ==
    /\ out.op = "pipeline"
    /\ \E j \in Stored :
        /\ exportJobs[j].totalPages = MaxPages
        /\ exportJobs[j].currentPage = MaxPages
        /\ task[j].pc = "render"

\* C15: when the capturePageAsImage call for page k (1-based) fails or times
\* out, the job ends with status=error, a non-null error, no finalPdfPath
\* and currentPage = k-1, the number of pages captured so far.
C15_RenderFailureFreeze ==
    [][\A j \in JobIds :
        (task[j].pc = "render" /\ Fail(j, "render failed"))
        => /\ exportJobs'[j].status = "error"
           /\ exportJobs'[j].error # Null
           /\ exportJobs'[j].finalPdfPath = Null
           /\ exportJobs'[j].currentPage = Len(task[j].paths)]_vars

\* C16: when no page survives the merge (mergePdfs could read none of the
\* page files), the job becomes error and not complete: neither the step in
\* which such a merge returns nor the compression that follows it completes
\* the job.
C16_EmptyMergeIsError ==
    [][\A j \in JobIds :
        (\/ MergeOkOf(j, 0)
         \/ task[j].pc = "compress" /\ task[j].merged = 0)
        => exportJobs'[j].status # "complete"]_vars

\* the step that led here settled the closure of job j
SettledHere(j) ==
    \E i \in DOMAIN Log : Log[i].ev = "settled" /\ Log[i].job = j

\* C17: when all pages were captured, the merge wrote its file, compression
\* is requested and the compression API succeeds, the job goes from
\* compressing to complete with finalPdfPath = the compressed path and
\* compressionInfo.success = true; a job is compressing only after
\* processing, processing only after queued, and created as queued, so the
\* statuses visited are exactly queued, processing, compressing, complete.
C17_CompressionSuccess ==
    [][\A j \in JobIds :
        /\ \A copyOk \in BOOLEAN :
            CompressSettledOf(j, FALSE, "ok", copyOk)
            => /\ exportJobs[j].status = "compressing"
               /\ exportJobs[j].currentPage = exportJobs[j].totalPages
               /\ exportJobs'[j].status = "complete"
               /\ exportJobs'[j].finalPdfPath = "compressed"
               /\ \E info \in exportJobs'[j].compressionInfo : info.success
        /\ (j \in DOMAIN exportJobs' /\ exportJobs'[j].status = "compressing")
            => /\ j \in Stored
               /\ exportJobs[j].status \in {"processing", "compressing"}
        /\ (j \in Stored /\ exportJobs[j].status = "processing")
            => /\ exportJobs[j].finalPdfPath = Null
               /\ task[j].runs = 1
        /\ (j \in DOMAIN exportJobs' /\ exportJobs'[j].status = "processing")
            => IF j \in Stored
               THEN exportJobs[j].status \in {"queued", "processing"}
               ELSE \A r \in out'.snapshot : r.status = "queued"]_vars

\* a compression that succeeded has just completed a job
C17_Witness ==
    \E j \in Stored :
        /\ SettledHere(j)
        /\ exportJobs[j].status = "complete"
        /\ exportJobs[j].finalPdfPath = "compressed"
        /\ Exists(disk[j], "compressed")
        /\ ReadFile(disk[j], "compressed") = "compressed pdf"
        /\ exportJobs[j].compressionInfo # {}
        /\ InfoOf(j).success
        /\ ~InfoOf(j).skipped

\* C18: when the compression API fails while the merged file exists and the
\* fallback copy succeeds, the job becomes complete (not error) with
\* compressionInfo.success = false and fallback_used = true, and its
\* finalPdfPath is the compressed path, where a copy of the merged file
\* now lies.
C18_FallbackCopy ==
    [][\A j \in JobIds : \A api \in {"startFails", "processFails"} :
        CompressSettledOf(j, FALSE, api, TRUE)
        => /\ exportJobs'[j].status = "complete"
           /\ exportJobs'[j].error = Null
           /\ \E info \in exportJobs'[j].compressionInfo :
                ~info.success /\ info.fallback_used
           /\ exportJobs'[j].finalPdfPath = "compressed"
           /\ Exists(disk'[j], "compressed")
           /\ ReadFile(disk'[j], "compressed") = ReadFile(disk[j], "merged")]_vars

\* a job has just been completed by the fallback copy
C18_Witness ==
    \E j \in Stored :
        /\ SettledHere(j)
        /\ exportJobs[j].status = "complete"
        /\ exportJobs[j].compressionInfo # {}
        /\ InfoOf(j).fallback_used
        /\ Exists(disk[j], "compressed")
        /\ ReadFile(disk[j], "compressed") = "merged pdf"

\* C19: when the merged file is missing as compressPDF looks for it,
\* compressionInfo.fallback_impossible = true is recorded, the closure's
\* execute() resolves (nothing is thrown out of the pipeline), and the job
\* ends in error, not in complete.
C19_MissingInputIsError ==
    [][\A j \in JobIds :
        \A api \in {"ok", "startFails", "processFails"}, copyOk \in BOOLEAN :
            CompressSettledOf(j, TRUE, api, copyOk)
            => /\ \E info \in exportJobs'[j].compressionInfo :
                    info.fallback_impossible
               /\ SettledHere(j)'
               /\ exportJobs'[j].status = "error"]_vars

\* the step that led to out called compressPDF for job j
CallsCompressor(o, j) ==
    \E i \in DOMAIN o.log :
        /\ o.log[i].ev = "call"
        /\ o.log[i].kind = "compressPDF"
        /\ o.log[i].job = j

\* C20: a job enters compressing iff compression is requested, and it is
\* requested unless the request says shouldCompress = false (so also when
\* the field is absent).  With compression disabled the merge step takes
\* the job from processing straight to complete, compressPDF is not called,
\* and compressionInfo has skipped = true and success = true.
C20_CompressingIffRequested ==
    [][/\ AcceptedStep(out') => \A rss \in RssSamples, body \in Bodies :
            SubmitOf(rss, body, MaxJobs)
                => task'[nextId].shouldCompress = body.shouldCompress
       /\ \A j \in JobIds :
            /\ \A k \in 0..Len(task[j].paths) :
                MergeOkOf(j, k)
                => IF task[j].shouldCompress # "false"
                   THEN /\ exportJobs'[j].status = "compressing"
                        /\ CallsCompressor(out', j)
                   ELSE /\ exportJobs[j].status = "processing"
                        /\ exportJobs'[j].status = "complete"
                        /\ ~CallsCompressor(out', j)
                        /\ SettledHere(j)'
                        /\ \E info \in exportJobs'[j].compressionInfo :
                            info.skipped /\ info.success
            /\ (j \in DOMAIN exportJobs'
                /\ exportJobs'[j].status = "compressing")
                => task'[j].shouldCompress # "false"
            /\ CallsCompressor(out', j)
                => /\ task[j].shouldCompress # "false"
                   /\ exportJobs'[j].status = "compressing"]_vars

\* a job submitted without shouldCompress is compressing while one submitted
\* with shouldCompress = false is complete, its compression skipped
C20_Witness ==
    \E j, k \in Stored :
        /\ exportJobs[j].status = "compressing"
        /\ task[j].shouldCompress = "undefined"
        /\ exportJobs[k].status = "complete"
        /\ exportJobs[k].compressionInfo # {}
        /\ InfoOf(k).skipped
        /\ InfoOf(k).success

\* C21: when isAvailable() is false (a key is not configured) and
\* compression is requested, the job does not fail and its compression is
\* recorded as skipped (compressionInfo.skipped = true), not as a failed
\* compression with or without fallback.
C21_NoKeysSkipsCompression ==
    [][\A j \in JobIds, copyOk \in BOOLEAN :
        \A api \in {"ok", "startFails", "processFails"} :
            (~IsAvailable(apiKeys) /\ CompressSettledOf(j, FALSE, api, copyOk))
            => /\ exportJobs'[j].status = "complete"
               /\ \E info \in exportJobs'[j].compressionInfo :
                    /\ info.skipped
                    /\ ~info.fallback_used
                    /\ ~info.fallback_failed]_vars

\* C22: a cleanup sweep removes from the store every job that is complete
\* or error and was last updated more than one hour (3600000 ms) ago, all
\* of them in that one sweep, and leaves every other record as it was; a
\* directory removal that fails afterwards changes nothing in the store.
C22_SweepRemovesExpired ==
    [][/\ out'.op = "sweep"
            => /\ DOMAIN exportJobs' =
                    {j \in Stored :
                        ~(/\ exportJobs[j].status \in {"complete", "error"}
                          /\ now - exportJobs[j].lastUpdated > 3600000)}
               /\ \A j \in DOMAIN exportJobs' : exportJobs'[j] = exportJobs[j]
       /\ out'.op = "removed" => exportJobs' = exportJobs]_vars

\* one sweep has removed two expired jobs, a complete one and a failed one
C22_Witness ==
    /\ out.op = "sweep"
    /\ nextId = 3
    /\ Stored = {}
    /\ \E j \in 1..2 : removing = {j}

\* C23: the cleanup never deletes a job whose status is queued, processing
\* or compressing, however old its lastUpdated is.
C23_NonTerminalNeverSwept ==
    [][\A j \in Stored :
        exportJobs[j].status \in {"queued", "processing", "compressing"}
            => j \in DOMAIN exportJobs']_vars

\* a sweep has passed over a job that is still running more than an hour
\* after its last update
C23_Witness ==
    /\ out.op = "sweep"
    /\ \E j \in Stored :
        /\ exportJobs[j].status \in {"processing", "compressing"}
        /\ now - exportJobs[j].lastUpdated > 3600000

\* nothing but the emitted response differs after the step
ReadOnlyStep ==
    UNCHANGED <<exportJobs, queue, processing, immediates, task, nextId, now,
                disk, removing, unhandled, responded, apiKeys>>

\* C24: a status poll for an id that is in the store answers 200 with that
\* job's current record (status, error, currentPage, totalPages, ...),
\* whatever the job's status; a poll for an id that is not in the store
\* (never created, or swept) answers 404 not found; the poll changes neither
\* the store nor the queue.
C24_StatusPoll ==
    [][out'.op = "status"
        => /\ ReadOnlyStep
           /\ \E id \in JobIds :
                IF id \in Stored
                THEN /\ out'.log = <<Event("respond", id, 200, "Job", 0)>>
                     /\ out'.snapshot = {exportJobs[id]}
                ELSE /\ out'.log = <<Event("respond", id, 404, "NotFound", 0)>>
                     /\ out'.snapshot = {}]_vars

\* a poll has just returned the record of a failed job, after another job
\* was swept
C24_Witness ==
    /\ out.op = "status"
    /\ \E rec \in out.snapshot :
        /\ rec.status = "error"
        /\ rec.error # Null
        /\ exportJobs[rec.id] = rec
    /\ \E k \in 1..MaxJobs : k < nextId /\ k \notin Stored

\* C25: a download request for an unknown id answers 404 not found; for a
\* stored job whose status is not complete or whose finalPdfPath is null it
\* answers 400 not ready; it streams finalPdfPath only when the job is
\* complete; it changes neither the store nor the queue.
C25_Download ==
    [][out'.op = "download"
        => /\ ReadOnlyStep
           /\ \E id \in JobIds :
                /\ Len(out'.log) = 1
                /\ out'.log[1].ev = "respond"
                /\ out'.log[1].job = id
                /\ IF id \notin Stored
                   THEN /\ out'.log[1].code = 404
                        /\ out'.log[1].kind = "NotFound"
                   ELSE IF exportJobs[id].status # "complete"
                           \/ exportJobs[id].finalPdfPath = Null
                   THEN /\ out'.log[1].code = 400
                        /\ out'.log[1].kind = "NotReady"
                   ELSE /\ out'.log[1].code = 200
                        /\ out'.log[1].kind = exportJobs[id].finalPdfPath
                        /\ exportJobs[id].status = "complete"]_vars

\* the compressed file of a complete job has just been streamed while
\* another job is still being processed
C25_Witness ==
    /\ out.op = "download"
    /\ \E id \in Stored :
        /\ Log = <<Event("respond", id, 200, "compressed", 1)>>
        /\ exportJobs[id].status = "complete"
    /\ \E k \in Stored : exportJobs[k].status \in {"processing", "compressing"}

\* the page files page_1.pdf .. page_n.pdf, in page order
PagesUpTo(n) == [k \in 1..n |-> k]

\* C26: within a job capturePageAsImage is called for page indices 0, 1,
\* 2, ... in ascending order, index 0 when the directory is ready and index
\* i+1 only in the step in which the call for index i succeeded, so each
\* index at most once; mergePdfs is called only when the call for the last
\* index succeeded, with the page files of all totalPages pages in page
\* order, and compressPDF only after the merge; a job that has failed makes
\* no further call.
C26_RenderOrder ==
    [][\A x \in DOMAIN out'.log :
        LET e == out'.log[x]
            j == e.job
        IN  e.ev = "call"
            => /\ j \in Stored => exportJobs[j].status # "error"
               /\ exportJobs'[j].status \in {"processing", "compressing"}
               /\ e.kind = "capturePageAsImage"
                    => /\ e.n < task'[j].totalPages
                       /\ task'[j].paths = PagesUpTo(e.n)
                       /\ IF e.n = 0
                          THEN task[j].pc = "ensureDir"
                          ELSE /\ task[j].pc = "render"
                               /\ task[j].i = e.n - 1
                               /\ task[j].paths = PagesUpTo(e.n - 1)
               /\ e.kind = "mergePdfs"
                    => /\ task[j].pc = "render"
                       /\ task[j].i = task[j].totalPages - 1
                       /\ e.n = PagesUpTo(task[j].totalPages)
               /\ e.kind = "compressPDF" => task[j].pc = "merge"]_vars

\* mergePdfs has just been called with the files of all MaxPages pages
C26_Witness ==
    /\ out.op = "pipeline"
    /\ \E j \in Stored :
        /\ exportJobs[j].totalPages = MaxPages
        /\ Log = <<Event("call", j, 0, "mergePdfs", PagesUpTo(MaxPages))>>

\* C27: a page file that mergePdfs cannot read does not abort the job: when
\* at least one page is merged, the others are skipped, the merged file is
\* written and the job goes on to compressing or complete, not to error.
C27_LenientMerge ==
    [][\A j \in JobIds : \A k \in 1..Len(task[j].paths) :
        MergeOkOf(j, k)
        => /\ Exists(disk'[j], "merged")
           /\ exportJobs'[j].status \in {"compressing", "complete"}
           /\ exportJobs'[j].error = Null
           /\ \E i \in DOMAIN out'.log :
                out'.log[i] = Event("return", j, 0, "mergePdfs", k)]_vars

\* a merge of a two-page job has just returned having read one page of two
C27_Witness ==
    \E j \in Stored :
        /\ exportJobs[j].totalPages = 2
        /\ exportJobs[j].status \in {"compressing", "complete"}
        /\ Exists(disk[j], "merged")
        /\ \E i \in DOMAIN Log : Log[i] = Event("return", j, 0, "mergePdfs", 1)

\* C28: when the compression API fails and the fallback copy fails too while
\* the merged file exists, the job still becomes complete, with finalPdfPath
\* = the merged (uncompressed) file, which is there, and compressionInfo
\* fallback_failed = true, fallback_used = false, success = false.
C28_FallbackFailed ==
    [][\A j \in JobIds : \A api \in {"startFails", "processFails"} :
        CompressSettledOf(j, FALSE, api, FALSE)
        => /\ exportJobs'[j].status = "complete"
           /\ exportJobs'[j].finalPdfPath = "merged"
           /\ Exists(disk'[j], "merged")
           /\ \E info \in exportJobs'[j].compressionInfo :
                /\ info.fallback_failed
                /\ ~info.fallback_used
                /\ ~info.success]_vars

\* a job has just been completed with the merged file after both the
\* compression and the copy failed
C28_Witness ==
    \E j \in Stored :
        /\ SettledHere(j)
        /\ exportJobs[j].status = "complete"
        /\ exportJobs[j].finalPdfPath = "merged"
        /\ exportJobs[j].compressionInfo # {}
        /\ InfoOf(j).fallback_failed
        /\ Exists(disk[j], "merged")
        /\ ~Exists(disk[j], "compressed")

\* C29: for every job the cleanup deletes, complete or error, it also starts
\* the removal of that job's output directory.
C29_SweepRemovesDirs ==
    [][\A j \in Stored :
        j \notin DOMAIN exportJobs' => j \in removing']_vars

\* the step that leads to out started the closure of job j
StartsClosure(o, j) ==
    \E i \in DOMAIN o.log : o.log[i].ev = "execute" /\ o.log[i].job = j

\* C30: the closure of an accepted job is run once: never a second time,
\* not yet while the job is queued, and exactly once from then on.  While
\* a job is queued, processing or compressing its record is changed only by
\* the step that starts its own closure or by a continuation of its own
\* closure, and it is not deleted: no other job's closure, submission, poll,
\* download or cleanup sweep touches it.
C30_SoleWriter ==
    [][\A j \in DOMAIN exportJobs' :
        /\ task'[j].runs <= 1
        /\ exportJobs'[j].status = "queued" <=> task'[j].runs = 0
        /\ (/\ j \in Stored
            /\ exportJobs[j].status \in {"queued", "processing", "compressing"}
            /\ exportJobs'[j] # exportJobs[j])
            => \/ /\ task[j].pc = "waiting"
                  /\ StartsClosure(out', j)
                  /\ out'.op \in {"submit", "processNext"}
               \/ /\ Executing(j)
                  /\ out'.op = "pipeline"
                  /\ task'[j] # task[j]
                  /\ \A k \in JobIds \ {j} : task'[k] = task[k]]_vars
    /\ [][\A j \in Stored :
            exportJobs[j].status \in {"queued", "processing", "compressing"}
                => j \in DOMAIN exportJobs']_vars

\* a queued job has just been started by the setImmediate callback while
\* the record of the job before it is complete
C30_Witness ==
    /\ out.op = "processNext"
    /\ \E j, k \in Stored :
        /\ StartsClosure(out, j)
        /\ task[j].runs = 1
        /\ exportJobs[j].status = "processing"
        /\ exportJobs[k].status = "complete"


\* C31: once a job record exists, no step changes its id, totalPages,
\* jobOutputDir or queuePosition for as long as it is stored; queuePosition
\* in particular stays what it was at submission while the queue drains and
\* when the job starts running.
C31_FrozenFields ==
    [][\A j \in Stored :
        j \in DOMAIN exportJobs'
            => /\ exportJobs'[j].id = exportJobs[j].id
               /\ exportJobs'[j].totalPages = exportJobs[j].totalPages
               /\ exportJobs'[j].jobOutputDir = exportJobs[j].jobOutputDir
               /\ exportJobs'[j].queuePosition = exportJobs[j].queuePosition]_vars

\* a job that waited in the queue has been started by the setImmediate
\* callback, the queue is empty, and its queuePosition is still 1
C31_Witness ==
    /\ out.op = "processNext"
    /\ queue = <<>>
    /\ \E j \in Stored :
        /\ StartsClosure(out, j)
        /\ exportJobs[j].status = "processing"
        /\ exportJobs[j].id = j
        /\ exportJobs[j].jobOutputDir = <<"export", j>>
        /\ exportJobs[j].queuePosition = 1


\* C32: at most 3 tasks wait in the queue, so at most 3 jobs are queued and
\* at most 4 stored jobs are queued, processing or compressing (3 waiting
\* and 1 running), however submissions and completions interleave; the
\* step that admits a request finds fewer than 3 waiting tasks and itself
\* appends the new task to the queue (and, when nothing is running, starts
\* the task at the head).
C32_QueueBound ==
    /\ [](/\ Len(queue) <= 3
          /\ Cardinality({j \in Stored : exportJobs[j].status = "queued"}) <= 3
          /\ Cardinality({j \in Stored : ~Terminal(exportJobs[j].status)}) <= 4)
    /\ [][AcceptedStep(out')
            => /\ Len(queue) < 3
               /\ \E j \in DOMAIN exportJobs' \ Stored :
                    \/ queue' = Append(queue, j)
                    \/ /\ ~processing
                       /\ queue' = Tail(Append(queue, j))
                       /\ StartsClosure(out', Head(Append(queue, j)))]_vars

\* three jobs wait behind a running one after an earlier job has finished
C32_Witness ==
    /\ Len(queue) = 3
    /\ processing
    /\ Cardinality({j \in Stored : exportJobs[j].status = "queued"}) = 3
    /\ Cardinality({j \in Stored : ~Terminal(exportJobs[j].status)}) = 4
    /\ \E j \in Stored : Terminal(exportJobs[j].status)


\* C33: the queue is never idle with work pending: whenever tasks wait and
\* none is executing, a setImmediate callback that runs processNext is
\* pending.  A submission admitted while nothing executes (between a
\* completion and that callback, or after the queue had emptied) starts the
\* task at the head of the queue in its own step.
C33_NeverIdle ==
    /\ []((Len(queue) > 0 /\ ~processing) => immediates > 0)
    /\ [][(AcceptedStep(out') /\ ~processing)
            => /\ processing'
               /\ \E j \in DOMAIN exportJobs' \ Stored :
                    StartsClosure(out', Head(Append(queue, j)))]_vars

\* a submission arrived between a completion and the scheduled processNext:
\* it started the task that was waiting, and its own task waits with the
\* callback still pending
C33_Witness ==
    /\ AcceptedStep(out)
    /\ immediates > 0
    /\ processing
    /\ \E j, k \in Stored :
        /\ j < k
        /\ StartsClosure(out, j)
        /\ queue = <<k>>
        /\ out.snapshot = {exportJobs[k]}


\* C34: the callbacks of the cleanup's directory removal never read a job
\* record that has been deleted from the store, so no sweep leaves an
\* unhandled error behind.
C34_CallbacksSafe ==
    /\ unhandled = {}
    /\ \A j \in removing : ~CallbackThrows(exportJobs, j)


\* the jobs whose closures wait in the queue
Waiting == {queue[i] : i \in DOMAIN queue}

\* the stored jobs whose closure is running
Running ==
    {j \in Stored : exportJobs[j].status \in {"processing", "compressing"}}

\* C35: between two event-loop steps a job is queued exactly when its
\* closure waits in the queue, at most one job is processing or
\* compressing, and there is such a job only while the queue's processing
\* flag is set.
C35_StatusMatchesQueue ==
    /\ Waiting = {j \in Stored : exportJobs[j].status = "queued"}
    /\ \A j \in Waiting : task[j].pc = "waiting"
    /\ Cardinality(Running) <= 1
    /\ Running # {} => processing

\* one job is compressing while another waits in the queue
C35_Witness ==
    /\ processing
    /\ \E j, k \in Stored :
        /\ exportJobs[j].status = "compressing"
        /\ Running = {j}
        /\ exportJobs[k].status = "queued"
        /\ queue = <<k>>


\* C36: a job that is compressing stays compressing until its compressPDF
\* call settles, and that step makes it complete with no error recorded,
\* whatever compressPDF returned (success, fallback copy, failed copy or
\* missing input); the job never ends in error, and no job stays
\* compressing for ever.
C36_CompressingCompletes ==
    /\ [][\A j \in Stored :
            exportJobs[j].status = "compressing"
                => /\ task[j].pc = "compress"
                   /\ j \in DOMAIN exportJobs'
                   /\ exportJobs'[j].status \in {"compressing", "complete"}
                   /\ exportJobs'[j].error = Null
                   /\ \A gone, copyOk \in BOOLEAN :
                        \A api \in {"ok", "startFails", "processFails"} :
                            CompressSettledOf(j, gone, api, copyOk)
                                => exportJobs'[j].status = "complete"]_vars
    /\ []<>(\A j \in Stored : exportJobs[j].status # "compressing")

\* a job has gone from compressing to complete although compressPDF found
\* no input file and wrote no output
C36_Witness ==
    \E j \in Stored :
        /\ SettledHere(j)
        /\ exportJobs[j].status = "complete"
        /\ exportJobs[j].error = Null
        /\ exportJobs[j].compressionInfo # {}
        /\ InfoOf(j).fallback_impossible
        /\ ~InfoOf(j).skipped


\* C37: a job whose status is error has finalPdfPath = null and
\* compressionInfo = null: the closure fails only before it has written
\* either of them.
C37_ErrorHasNoArtifact ==
    \A j \in Stored :
        exportJobs[j].status = "error"
            => /\ exportJobs[j].finalPdfPath = Null
               /\ exportJobs[j].compressionInfo = {}

\* a job failed in its merge, the last call before the two fields are
\* written, while another job is complete with both fields set
C37_Witness ==
    \E j, k \in Stored :
        /\ exportJobs[j].status = "error"
        /\ exportJobs[j].error = "merge failed"
        /\ exportJobs[j].finalPdfPath = Null
        /\ exportJobs[j].compressionInfo = {}
        /\ exportJobs[k].status = "complete"
        /\ exportJobs[k].finalPdfPath # Null
        /\ exportJobs[k].compressionInfo # {}


\* C38: while a complete job is in the store, the removal of its output
\* directory has neither been started nor carried out: a removal is started
\* only by the sweep step that deletes the job's record, ids are never
\* handed out again, and no step changes the files of a stored complete
\* job, so a download of a stored job never finds its file removed by the
\* cleanup.
C38_NoRemovalWhileStored ==
    /\ [](\A j \in Stored : j \notin removing /\ j < nextId)
    /\ [][/\ \A j \in removing' \ removing :
                /\ out'.op = "sweep"
                /\ j \in Stored
                /\ exportJobs[j].status = "complete"
                /\ j \notin DOMAIN exportJobs'
          /\ \A j \in DOMAIN exportJobs' \ Stored : j = nextId /\ nextId' > j
          /\ \A j \in Stored :
                (exportJobs[j].status = "complete" /\ j \in DOMAIN exportJobs')
                    => disk'[j] = disk[j]
          /\ out'.op = "removed"
                => \A j \in JobIds : disk'[j] # disk[j] => j \notin Stored]_vars

\* the directory of a swept job has been removed while a younger complete
\* job is still stored with its final file on disk
C38_Witness ==
    /\ out.op = "removed"
    /\ \E j, k \in JobIds :
        /\ j \notin Stored
        /\ j < nextId
        /\ disk[j] = {}
        /\ k \in Stored
        /\ exportJobs[k].status = "complete"
        /\ Exists(disk[k], exportJobs[k].finalPdfPath)


\* C39: a job that is compressing or complete has currentPage = totalPages,
\* and a job that is queued has currentPage = 0.
C39_PageCounterByStatus ==
    \A j \in Stored :
        /\ exportJobs[j].status \in {"compressing", "complete"}
            => exportJobs[j].currentPage = exportJobs[j].totalPages
        /\ exportJobs[j].status = "queued" => exportJobs[j].currentPage = 0

\* a job of more than one page is compressing with every page counted while
\* another job waits with none
C39_Witness ==
    \E j, k \in Stored :
        /\ exportJobs[j].status = "compressing"
        /\ exportJobs[j].totalPages > 1
        /\ exportJobs[j].currentPage = exportJobs[j].totalPages
        /\ exportJobs[k].status = "queued"
        /\ exportJobs[k].currentPage = 0
        /\ exportJobs[k].totalPages > 0

====
